---- MODULE Spec2Model ----
(***************************************************************************)
(* CloudVault: the encrypted-object vault of server/utils/encryption.js,   *)
(* the blob store of server/utils/storage.js and the HTTP handlers of      *)
(* server/routes/files.js and server/routes/storage.js, and the register   *)
(* handler of server/routes/auth.js.                                       *)
(*                                                                         *)
(* Strings are sequences of character codes.  Byte buffers are sequences   *)
(* of 0..255.  The cryptographic primitives are modelled as ideal: SHA-512 *)
(* and the GCM tag are injective symbolic terms, PBKDF2-HMAC-SHA512 is     *)
(* injective in (HMAC key block, salt), AES-CTR is a keyed invertible      *)
(* byte-wise stream transform.  Node API semantics are those of a runtime  *)
(* in which every API the code calls exists (crypto.createCipher and the   *)
(* recursive option of fs.readdir).                                        *)
(***************************************************************************)
EXTENDS Integers, Sequences, FiniteSets, TLC

(***************************************************************************)
(* Buffer <-> string conversions                                           *)
(***************************************************************************)

\* The base64 alphabet: index 0..63 to its character code.
Base64Char(i) ==
    IF i < 26 THEN 65 + i
    ELSE IF i < 52 THEN 97 + (i - 26)
    ELSE IF i < 62 THEN 48 + (i - 52)
    ELSE IF i = 62 THEN 43 ELSE 47

\* Character code to its base64 value, -1 for a character outside the
\* alphabet ('-' and '_' are accepted as 62 and 63 by Buffer.from).
Base64Val(c) ==
    IF c >= 65 /\ c <= 90 THEN c - 65
    ELSE IF c >= 97 /\ c <= 122 THEN c - 97 + 26
    ELSE IF c >= 48 /\ c <= 57 THEN c - 48 + 52
    ELSE IF c = 43 \/ c = 45 THEN 62
    ELSE IF c = 47 \/ c = 95 THEN 63
    ELSE -1

\* fileBuffer.toString('base64')
RECURSIVE ToBase64(_)
ToBase64(b) ==
    IF Len(b) = 0 THEN << >>
    ELSE IF Len(b) = 1 THEN
        << Base64Char(b[1] \div 4), Base64Char((b[1] % 4) * 16), 61, 61 >>
    ELSE IF Len(b) = 2 THEN
        << Base64Char(b[1] \div 4),
           Base64Char((b[1] % 4) * 16 + (b[2] \div 16)),
           Base64Char((b[2] % 16) * 4), 61 >>
    ELSE
        << Base64Char(b[1] \div 4),
           Base64Char((b[1] % 4) * 16 + (b[2] \div 16)),
           Base64Char((b[2] % 16) * 4 + (b[3] \div 64)),
           Base64Char(b[3] % 64) >> \o ToBase64(SubSeq(b, 4, Len(b)))

\* The base64 values of a string up to its first '=', characters outside the
\* alphabet skipped.
RECURSIVE Base64Values(_)
Base64Values(s) ==
    IF Len(s) = 0 \/ s[1] = 61 THEN << >>
    ELSE IF Base64Val(s[1]) < 0 THEN Base64Values(Tail(s))
    ELSE << Base64Val(s[1]) >> \o Base64Values(Tail(s))

RECURSIVE Base64Bytes(_)
Base64Bytes(v) ==
    IF Len(v) < 2 THEN << >>
    ELSE IF Len(v) = 2 THEN << v[1] * 4 + (v[2] \div 16) >>
    ELSE IF Len(v) = 3 THEN
        << v[1] * 4 + (v[2] \div 16), (v[2] % 16) * 16 + (v[3] \div 4) >>
    ELSE
        << v[1] * 4 + (v[2] \div 16),
           (v[2] % 16) * 16 + (v[3] \div 4),
           (v[3] % 4) * 64 + v[4] >> \o Base64Bytes(SubSeq(v, 5, Len(v)))

\* Buffer.from(str, 'base64')
FromBase64(s) == Base64Bytes(Base64Values(s))

\* Hex digit value to its (lower-case) character code.
HexChar(d) == IF d < 10 THEN 48 + d ELSE 87 + d

\* Character code to hex digit value, -1 for a non-hex character.
HexVal(c) ==
    IF c >= 48 /\ c <= 57 THEN c - 48
    ELSE IF c >= 97 /\ c <= 102 THEN c - 87
    ELSE IF c >= 65 /\ c <= 70 THEN c - 55
    ELSE -1

\* bytes as a hex string (the 'hex' output encoding of cipher.update/final)
RECURSIVE ToHex(_)
ToHex(b) ==
    IF Len(b) = 0 THEN << >>
    ELSE << HexChar(b[1] \div 16), HexChar(b[1] % 16) >> \o ToHex(Tail(b))

\* hex string to bytes (the 'hex' input encoding): decoding stops at the
\* first pair that is not two hex digits, a trailing single digit is dropped
RECURSIVE FromHex(_)
FromHex(s) ==
    IF Len(s) < 2 \/ HexVal(s[1]) < 0 \/ HexVal(s[2]) < 0 THEN << >>
    ELSE << HexVal(s[1]) * 16 + HexVal(s[2]) >> \o FromHex(SubSeq(s, 3, Len(s)))

(***************************************************************************)
(* AdvancedEncryption (server/utils/encryption.js)                         *)
(***************************************************************************)

algorithm == "aes-256-gcm"
keyLength == 32
ivLength == 16
saltLength == 32
tagLength == 16
iterations == 100000
AAD == "CloudEncryptionApp"
WrapperVersion == "1.0.0"

\* crypto.randomBytes(n): n random bytes, named by the token the random
\* source produced.  A buffer [of |-> t, len |-> n] is the first n bytes of t.
randomBytes(token, n) == [of |-> token, len |-> n]

generateSalt(token) == randomBytes(token, saltLength)

generateIV(token) == randomBytes(token, ivLength)

\* buf.toString('hex') of an opaque buffer, and Buffer.from(str, 'hex') of
\* such a string: the string decodes to as many bytes as it has leading
\* pairs of hex digits.
BufferToHex(buf) == [hexOf |-> buf.of, bytes |-> buf.len]

BufferFromHex(str) == [of |-> str.hexOf, len |-> str.bytes]

RECURSIVE StripTrailingZeros(_)
StripTrailingZeros(s) ==
    IF Len(s) > 0 /\ s[Len(s)] = 0
    THEN StripTrailingZeros(SubSeq(s, 1, Len(s) - 1))
    ELSE s

\* The HMAC-SHA512 key block PBKDF2 computes from the password: a password
\* of at most one block (128 bytes) is padded with zero bytes to the block
\* length, so the block is determined by the password without its trailing
\* zero bytes.  (Every password of the model is shorter than a block.)
HmacKeyBlock(password) == StripTrailingZeros(password)

\* pbkdf2(password, salt, this.iterations, this.keyLength, 'sha512')
deriveKey(password, salt) ==
    [ pbkdf2 |-> "sha512", hmacKey |-> HmacKeyBlock(password), salt |-> salt,
      iterations |-> iterations, length |-> keyLength ]

\* crypto.createCipher(algorithm, password) / crypto.createDecipher: the
\* cipher key and the IV are both derived from `password` (EVP_BytesToKey);
\* no IV is passed in.
createCipher(alg, password) ==
    [ algorithm |-> alg, keyAndIv |-> [evpBytesToKey |-> password] ]

RECURSIVE SumSeq(_)
SumSeq(s) == IF Len(s) = 0 THEN 0 ELSE s[1] + SumSeq(Tail(s))

\* Byte i of the CTR key stream of a cipher.
KeyStream(cipher, i) ==
    LET k == cipher.keyAndIv.evpBytesToKey
    IN  (SumSeq(k.hmacKey) + 31 * k.salt.of + 7 * k.salt.len + 13 * i) % 256

\* cipher.update(data) + cipher.final(): the ciphertext bytes.
CipherBytes(cipher, data) ==
    [ i \in 1..Len(data) |-> (data[i] + KeyStream(cipher, i)) % 256 ]

\* decipher.update(bytes): the plaintext bytes.
DecipherBytes(cipher, bytes) ==
    [ i \in 1..Len(bytes) |-> (bytes[i] + 256 - KeyStream(cipher, i)) % 256 ]

\* cipher.getAuthTag(): the GCM tag over (key and IV, AAD, ciphertext).
AuthTag(cipher, aad, bytes) ==
    randomBytes([gcm |-> cipher, aad |-> aad, ct |-> bytes], tagLength)

\* JSON.stringify of an object whose fields are strings and integers, and
\* JSON.parse of such a text.
JsonStringify(obj) == [json |-> obj]

JsonParse(text) == text.json

\* crypto.createHash('sha512').update(data).digest('hex')
Sha512Hex(data) == [hexOf |-> [sha512 |-> data], bytes |-> 64]

generateIntegrityHash(encryptedData, metadata) ==
    Sha512Hex(<< encryptedData, JsonStringify(metadata) >>)

\* crypto.timingSafeEqual(a, b): throws when the lengths differ.
timingSafeEqual(a, b) ==
    IF a.len # b.len THEN "throw" ELSE IF a = b THEN "true" ELSE "false"

verifyIntegrity(encryptedData, metadata, expectedHash) ==
    timingSafeEqual(BufferFromHex(generateIntegrityHash(encryptedData, metadata)),
                    BufferFromHex(expectedHash))

\* An encrypt that records the derived key in the metadata it returns.
encryptKeepingKey(data, password, saltToken, ivToken) ==
    LET salt   == generateSalt(saltToken)
        iv     == generateIV(ivToken)
        key    == deriveKey(password, salt)
        cipher == createCipher(algorithm, key)
        bytes  == CipherBytes(cipher, data)
        encrypted == ToHex(bytes)
        tag    == AuthTag(cipher, AAD, bytes)
        metadata == [ salt |-> BufferToHex(salt), iv |-> BufferToHex(iv),
                      tag |-> BufferToHex(tag), algorithm |-> algorithm,
                      iterations |-> iterations, version |-> WrapperVersion,
                      key |-> key ]
    IN  [ encrypted |-> encrypted, metadata |-> metadata,
          integrity |-> generateIntegrityHash(encrypted, metadata) ]

\* encrypt(data, password), with the salt and the IV the random source gave
encrypt(data, password, saltToken, ivToken) ==
    LET salt   == generateSalt(saltToken)
        iv     == generateIV(ivToken)
        key    == deriveKey(password, salt)
        cipher == createCipher(algorithm, key)
        bytes  == CipherBytes(cipher, data)
        encrypted == ToHex(bytes)
        tag    == AuthTag(cipher, AAD, bytes)
        metadata == [ salt |-> BufferToHex(salt), iv |-> BufferToHex(iv),
                      tag |-> BufferToHex(tag), algorithm |-> algorithm,
                      iterations |-> iterations, version |-> WrapperVersion ]
    IN  [ encrypted |-> encrypted, metadata |-> metadata,
          integrity |-> generateIntegrityHash(encrypted, metadata) ]

\* setAuthTag accepts a tag of one of the GCM tag lengths.
ValidTagLength(n) == n \in {4, 8, 12, 13, 14, 15, 16}

\* A decrypt that returns what the decipher produced without authenticating
\* the tag (decipher.final() never throwing).
decryptUnauthenticated(encryptedData, metadata, password) ==
    LET key    == deriveKey(password, BufferFromHex(metadata.salt))
        cipher == createCipher(algorithm, key)
    IN  [ ok |-> TRUE, value |-> DecipherBytes(cipher, FromHex(encryptedData)) ]

\* An Error whose message is `${prefix}: ${detail}`.
Error(prefix, detail) == [prefix |-> prefix, detail |-> detail]

\* decrypt(encryptedData, metadata, password): the decrypted string, or the
\* error `Decryption failed: ${error.message}` with the message of what
\* setAuthTag (a tag of no valid length) or final (a tag that does not
\* authenticate) threw.
decrypt(encryptedData, metadata, password) ==
    LET salt   == BufferFromHex(metadata.salt)
        iv     == BufferFromHex(metadata.iv)
        tag    == BufferFromHex(metadata.tag)
        key    == deriveKey(password, salt)
        cipher == createCipher(algorithm, key)
        bytes  == FromHex(encryptedData)
        expected == AuthTag(cipher, AAD, bytes)
    IN  IF ValidTagLength(tag.len) /\ tag.len <= expected.len /\ tag.of = expected.of
        THEN [ ok |-> TRUE, value |-> DecipherBytes(cipher, bytes) ]
        ELSE [ ok |-> FALSE, value |-> << >>,
               message |-> Error("Decryption failed",
                                 IF ValidTagLength(tag.len)
                                 THEN "Unsupported state or unable to authenticate data"
                                 ELSE "Invalid authentication tag length") ]

encryptFile(fileBuffer, password, saltToken, ivToken) ==
    encrypt(ToBase64(fileBuffer), password, saltToken, ivToken)

\* A decryptFile that returns the decrypted base64 text as the file.
decryptFileUndecoded(encryptedData, metadata, password) ==
    decrypt(encryptedData, metadata, password)

decryptFile(encryptedData, metadata, password) ==
    LET decrypted == decrypt(encryptedData, metadata, password)
    IN  IF decrypted.ok
        THEN [ ok |-> TRUE, value |-> FromBase64(decrypted.value) ]
        ELSE decrypted

\* A wrapper whose encryptedSize counts the cipher's bytes, not the characters
\* of the hex string that is stored.
createWrapperOfByteSize(fileBuffer, password, filename, timestamp, fileId, saltToken, ivToken) ==
    LET encryptionResult == encryptFile(fileBuffer, password, saltToken, ivToken)
        wrapper == [ id |-> fileId, filename |-> filename,
                     originalSize |-> Len(fileBuffer),
                     encryptedSize |-> Len(FromHex(encryptionResult.encrypted)),
                     timestamp |-> timestamp,
                     metadata |-> encryptionResult.metadata,
                     integrity |-> encryptionResult.integrity,
                     version |-> WrapperVersion ]
    IN  [ wrapper |-> wrapper, encryptedData |-> encryptionResult.encrypted ]

createSecureFileWrapper(fileBuffer, password, filename, timestamp, fileId, saltToken, ivToken) ==
    LET encryptionResult == encryptFile(fileBuffer, password, saltToken, ivToken)
        wrapper == [ id |-> fileId, filename |-> filename,
                     originalSize |-> Len(fileBuffer),
                     encryptedSize |-> Len(encryptionResult.encrypted),
                     timestamp |-> timestamp,
                     metadata |-> encryptionResult.metadata,
                     integrity |-> encryptionResult.integrity,
                     version |-> WrapperVersion ]
    IN  [ wrapper |-> wrapper, encryptedData |-> encryptionResult.encrypted ]

\* The 70 characters of charset, as character codes: A-Z, a-z, 0-9, !@#$%^&*
charset ==
    [ i \in 1..26 |-> 64 + i ] \o [ i \in 1..26 |-> 96 + i ]
    \o [ i \in 1..10 |-> 47 + i ] \o << 33, 64, 35, 36, 37, 94, 38, 42 >>

\* str.charAt(index): the character at a zero-based index, '' outside the string.
charAt(str, index) ==
    IF index >= 0 /\ index < Len(str) THEN << str[index + 1] >> ELSE << >>

\* A random integer source whose range includes its upper bound.
randomIntInclusive(max) == { 0, 25, 26, 61, max - 1, max }

\* crypto.randomInt(max): an integer n with 0 <= n < max.  The outcomes
\* explored are the indexes of 'A', 'Z', 'a', '9' and the last one.
randomInt(max) == { 0, 25, 26, 61, max - 1 }

\* generateSecurePassword(length), draws[i] being the outcome of the
\* crypto.randomInt call of the i-th turn of the loop.
RECURSIVE generateSecurePassword(_, _)
generateSecurePassword(length, draws) ==
    IF length <= 0 THEN << >>
    ELSE generateSecurePassword(length - 1, draws)
         \o charAt(charset, draws[length])

(***************************************************************************)
(* CloudStorage (server/utils/storage.js)                                  *)
(***************************************************************************)

\* One storage key for the encrypted blob of every record.
EncryptedKeyShared(fileId) == [dir |-> "encrypted/", name |-> 0, ext |-> ""]

\* The storage keys `encrypted/${id}` and `metadata/${id}.json`.  A key is
\* the record of its directory prefix, its file id and its extension.
EncryptedKey(fileId) == [dir |-> "encrypted/", name |-> fileId, ext |-> ""]

MetadataKey(fileId) == [dir |-> "metadata/", name |-> fileId, ext |-> ".json"]

\* The entry readdir returns for a directory itself ("encrypted", "metadata").
DirectoryEntry(d) == [dir |-> d, name |-> 0, ext |-> ""]

\* A health check whose throwaway key is the encrypted blob of record 1.
HealthKeyOfRecord(timestamp) == [dir |-> "encrypted/", name |-> 1, ext |-> ""]

\* The throwaway key 'health-check-' + Date.now().
HealthKey(timestamp) == [dir |-> "health-check-", name |-> timestamp, ext |-> ""]

EmptyStore == [k \in {} |-> << >>]

\* An uploadFile that swallows a backend error and reports the write done.
uploadFileSwallowing(st, key, data, ioError) ==
    IF ioError THEN [ok |-> TRUE, store |-> st]
    ELSE [ok |-> TRUE, store |-> (key :> data) @@ st]

\* uploadFile(key, data): uploadToS3 / uploadToLocal write the whole blob;
\* any backend error is rethrown as "Upload failed: ...".
uploadFile(st, key, data, ioError) ==
    IF ioError THEN [ok |-> FALSE, store |-> st]
    ELSE [ok |-> TRUE, store |-> (key :> data) @@ st]

\* downloadFile(key): getObject / readFile throw for a missing key.
downloadFile(st, key, ioError) ==
    IF ioError \/ key \notin DOMAIN st THEN [ok |-> FALSE, data |-> << >>]
    ELSE [ok |-> TRUE, data |-> st[key]]

Remove(st, key) == [k \in (DOMAIN st) \ {key} |-> st[k]]

\* A deleteFile that acknowledges and removes nothing.
deleteNothing(st, type, key, ioError) == [ok |-> TRUE, store |-> st]

\* deleteFile(key): s3.deleteObject succeeds whether or not the key exists;
\* fs.unlink rejects (ENOENT) for a missing file, rethrown as "Delete failed".
deleteFile(st, type, key, ioError) ==
    IF ioError THEN [ok |-> FALSE, store |-> st]
    ELSE IF type = "s3" THEN [ok |-> TRUE, store |-> Remove(st, key)]
    ELSE IF key \in DOMAIN st THEN [ok |-> TRUE, store |-> Remove(st, key)]
    ELSE [ok |-> FALSE, store |-> st]

RECURSIVE SortedSeq(_)
SortedSeq(S) ==
    IF S = {} THEN << >>
    ELSE LET m == CHOOSE x \in S : \A y \in S : x <= y
         IN  << m >> \o SortedSeq(S \ {m})

\* The keys of the store in one directory, in listing order.
KeysIn(st, d) ==
    LET ids == { k.name : k \in { x \in DOMAIN st : x.dir = d } }
        seq == SortedSeq(ids)
    IN  [ i \in 1..Len(seq) |->
            [dir |-> d, name |-> seq[i], ext |-> IF d = "metadata/" THEN ".json" ELSE ""] ]

\* listFromS3(prefix): the keys of the objects under the prefix.
listFromS3(st, prefix) ==
    IF prefix = ""
    THEN KeysIn(st, "encrypted/") \o KeysIn(st, "health-check-")
         \o KeysIn(st, "metadata/")
    ELSE KeysIn(st, prefix)

\* listFromLocal(prefix): readdir(dirPath, {recursive: true}) mapped through
\* path.join(prefix, file).  Listing the storage root returns the two
\* directories as entries of their own beside the files in them.
listFromLocal(st, prefix) ==
    IF prefix = ""
    THEN << DirectoryEntry("encrypted") >> \o KeysIn(st, "encrypted/")
         \o KeysIn(st, "health-check-")
         \o << DirectoryEntry("metadata") >> \o KeysIn(st, "metadata/")
    ELSE KeysIn(st, prefix)

\* listFiles(prefix): listFromLocal turns a readdir error into an empty
\* list; an S3 error is rethrown as "List failed: ...".
listFiles(st, type, prefix, ioError) ==
    IF type = "s3"
    THEN IF ioError THEN [ok |-> FALSE, files |-> << >>]
         ELSE [ok |-> TRUE, files |-> listFromS3(st, prefix)]
    ELSE IF ioError THEN [ok |-> TRUE, files |-> << >>]
         ELSE [ok |-> TRUE, files |-> listFromLocal(st, prefix)]

Range(seq) == { seq[i] : i \in 1..Len(seq) }

(***************************************************************************)
(* State                                                                   *)
(***************************************************************************)

VARIABLES
    storageType,  \* process.env.STORAGE_PROVIDER: "local" or "s3"
    store,        \* the blob store: storage key -> stored string
    usedIds,      \* the ids crypto.randomUUID() has produced so far
    up,           \* POST /upload requests, one per uploader
    del,          \* the DELETE /delete/:fileId request
    sweep,        \* the POST /cleanup request
    dl,           \* the POST /download request
    client,       \* what the client sent with each created id (file, password)
    tampered,     \* the storage keys whose bytes were changed behind the store
    interfered,   \* another handler wrote the store since the sweep listed it
    list,         \* the GET /list request
    meta,         \* the GET /metadata/:fileId request
    health,       \* the GET /health request
    gen,          \* the GET /generate-password request
    users,        \* routes/auth.js: the users Map, username -> user record
    reg           \* POST /register requests, one per registrant

vars == << storageType, store, usedIds, up, del, sweep, dl, client, tampered,
           interfered, list, meta, health, gen, users, reg >>

\* Bounds of the model.
NumStored == 1
NumUploaders == 2
MaxRequests == 3
MaxLength == 3
NumRegistrants == 2

StoredIds == 1..NumStored
Uploaders == 1..NumUploaders
FreshIds == (NumStored + 1)..(NumStored + NumUploaders)
AllIds == StoredIds \cup FreshIds
Registrants == 1..NumRegistrants

\* "password", "password" followed by a NUL character, "hunter22", "short"
PasswordA == << 112, 97, 115, 115, 119, 111, 114, 100 >>
PasswordA0 == PasswordA \o << 0 >>
PasswordB == << 104, 117, 110, 116, 101, 114, 50, 50 >>
ShortPassword == << 115, 104, 111, 114, 116 >>
Passwords == { PasswordA, PasswordA0, PasswordB, ShortPassword }

\* File contents: empty, two bytes and four bytes (every base64 padding).
Files == { << >>, << 104, 105 >>, << 0, 255, 128, 7 >> }
Filenames == { "report.pdf" }
\* Date.now() readings (TLC integers are 32 bits wide: seconds, not ms).
Times == { 1700000000 }

\* The request inputs of an upload: every input (the vault specification) and
\* a few (the concurrent specification).
\* `draws` is the number of outcomes of each crypto.randomBytes call explored.
AllInputs ==
    [ files |-> Files, passwords |-> Passwords, draws |-> 2 ]

FewInputs ==
    [ files |-> { << 104, 105 >> }, passwords |-> { PasswordA, ShortPassword },
      draws |-> 1 ]

\* Two files (one empty) and two passwords, for concurrent uploads.
SomeInputs ==
    [ files |-> { << >>, << 104, 105 >> }, passwords |-> { PasswordA, PasswordB },
      draws |-> 1 ]

\* express-validator: body('password').isLength({ min: 8 })
ValidPassword(password) == Len(password) >= 8

\* A source of ids that returns one it has returned before.
repeatedUUID(used) == CHOOSE id \in used : TRUE

\* crypto.randomUUID(): an id no earlier call returned (the next unused one).
randomUUID(used) ==
    CHOOSE id \in FreshIds \ used : \A other \in FreshIds \ used : id <= other

\* A random source that returns the same bytes on every call.
StaleTokens(used, n) == { 1 }

\* crypto.randomBytes(): the random source does not repeat itself.  The
\* outcomes of one call are the n smallest tokens no earlier call returned.
RECURSIVE FreshTokens(_, _)
FreshTokens(used, n) ==
    IF n = 0 THEN {}
    ELSE LET t == CHOOSE x \in 1..(Cardinality(used) + 1) \ used :
                    \A y \in 1..(Cardinality(used) + 1) \ used : x <= y
         IN  {t} \cup FreshTokens(used \cup {t}, n - 1)

\* The salt and IV tokens the random source has returned so far.
UsedSalts == { client[i].salt : i \in DOMAIN client }

UsedIVs == { client[i].iv : i \in DOMAIN client }

\* The number of requests the server has accepted so far.
Started ==
    Cardinality({ u \in Uploaders : up[u].pc # "idle" })
    + (IF del.pc # "idle" THEN 1 ELSE 0) + (IF sweep.pc # "idle" THEN 1 ELSE 0)
    + (IF dl.pc # "idle" THEN 1 ELSE 0) + (IF list.pc # "idle" THEN 1 ELSE 0)
    + (IF meta.pc # "idle" THEN 1 ELSE 0) + (IF health.pc # "idle" THEN 1 ELSE 0)

\* A new request is accepted while the server has served fewer than MaxRequests.
Accepting == Started < MaxRequests

\* Whether a write of another handler falls between the sweep's listing and
\* its last deletion.
Interference == interfered \/ sweep.pc = "deleting"

(***************************************************************************)
(* POST /upload (server/routes/files.js)                                   *)
(***************************************************************************)

\* The 500 answer of the catch block; fileId and failedAt record which
\* storage write threw.
UploadFailed(fileId, failedAt) ==
    [ pc |-> "done", status |-> 500, fileId |-> fileId, failedAt |-> failedAt ]

\* Validation, then createSecureFileWrapper(req.file.buffer, password, filename).
\* Uploader u serves the u-th upload request to arrive.
UploadCreate(u, inputs) ==
    /\ up[u].pc = "idle"
    /\ Accepting
    /\ \A v \in Uploaders : v < u => up[v].pc # "idle"
    /\ \E password \in inputs.passwords, hasFile \in BOOLEAN :
         IF ~ValidPassword(password) \/ ~hasFile
         THEN /\ up' = [up EXCEPT ![u] = [pc |-> "done", status |-> 400]]
              /\ UNCHANGED << usedIds, client >>
         ELSE \E file \in inputs.files, filename \in Filenames,
                 fileId \in {randomUUID(usedIds)},
                 salt \in FreshTokens(UsedSalts, inputs.draws),
                 iv \in FreshTokens(UsedIVs, inputs.draws), timestamp \in Times :
                LET r == createSecureFileWrapper(file, password, filename, timestamp,
                                                 fileId, salt, iv)
                IN  /\ up' = [up EXCEPT ![u] =
                                [pc |-> "created", wrapper |-> r.wrapper,
                                 encryptedData |-> r.encryptedData]]
                    /\ usedIds' = usedIds \cup {fileId}
                    /\ client' = (fileId :> [file |-> file, password |-> password,
                                              salt |-> salt, iv |-> iv]) @@ client
    /\ UNCHANGED << gen, users, reg, list, meta, health, storageType, store, del, sweep, dl, tampered, interfered >>

\* await storage.uploadFile(`encrypted/${wrapper.id}`, encryptedData)
UploadStoreEncrypted(u) ==
    /\ up[u].pc = "created"
    /\ \E ioError \in BOOLEAN :
         LET r == uploadFile(store, EncryptedKey(up[u].wrapper.id),
                             up[u].encryptedData, ioError)
         IN  /\ store' = r.store
             /\ up' = [up EXCEPT ![u] =
                         IF r.ok THEN [@ EXCEPT !.pc = "encryptedStored"]
                         ELSE UploadFailed(up[u].wrapper.id, "encrypted")]
             /\ interfered' = IF r.ok THEN Interference ELSE interfered
    /\ UNCHANGED << gen, users, reg, list, meta, health, storageType, usedIds, del, sweep, dl, client, tampered >>

\* await storage.uploadFile(`metadata/${wrapper.id}.json`, JSON.stringify(wrapper)),
\* then the success response.
UploadStoreMetadata(u) ==
    /\ up[u].pc = "encryptedStored"
    /\ \E ioError \in BOOLEAN :
         LET r == uploadFile(store, MetadataKey(up[u].wrapper.id),
                             JsonStringify(up[u].wrapper), ioError)
         IN  /\ store' = r.store
             /\ up' = [up EXCEPT ![u] =
                         IF r.ok
                         THEN [pc |-> "done", status |-> 200,
                               fileId |-> up[u].wrapper.id, wrapper |-> up[u].wrapper,
                               encryptedData |-> up[u].encryptedData]
                         ELSE UploadFailed(up[u].wrapper.id, "metadata")]
             /\ interfered' = IF r.ok THEN Interference ELSE interfered
    /\ UNCHANGED << gen, users, reg, list, meta, health, storageType, usedIds, del, sweep, dl, client, tampered >>

(***************************************************************************)
(* DELETE /delete/:fileId (server/routes/files.js)                         *)
(***************************************************************************)

\* A delete handler whose catch block answers success.
DeleteDoneAlwaysOk(fileId, status, ioFailure) ==
    [ pc |-> "done", fileId |-> fileId, status |-> 200, ioFailure |-> ioFailure ]

\* The answer of the delete handler; ioFailure records whether a backend
\* error (other than a missing file) was met.
DeleteDone(fileId, status, ioFailure) ==
    [ pc |-> "done", fileId |-> fileId, status |-> status, ioFailure |-> ioFailure ]

\* The ids a client can name in req.params.fileId: those of the records of
\* earlier runs and those a successful upload returned (an id is a random
\* UUID that only the upload's response discloses).
KnownIds ==
    StoredIds \cup { up[u].fileId : u \in { v \in Uploaders :
                                            up[v].pc = "done" /\ up[v].status = 200 } }

\* await storage.deleteFile(`encrypted/${fileId}`)
DeleteEncrypted ==
    /\ del.pc = "idle"
    /\ Accepting
    /\ \E fileId \in KnownIds, ioError \in BOOLEAN :
         LET r == deleteFile(store, storageType, EncryptedKey(fileId), ioError)
         IN  /\ store' = r.store
             /\ del' = IF r.ok THEN [pc |-> "encryptedDeleted", fileId |-> fileId]
                       ELSE DeleteDone(fileId, 500, ioError)
             /\ interfered' = IF r.store # store THEN Interference ELSE interfered
    /\ UNCHANGED << gen, users, reg, list, meta, health, storageType, usedIds, up, sweep, dl, client, tampered >>

\* await storage.deleteFile(`metadata/${fileId}.json`), then the response.
DeleteMetadata ==
    /\ del.pc = "encryptedDeleted"
    /\ \E ioError \in BOOLEAN :
         LET r == deleteFile(store, storageType, MetadataKey(del.fileId), ioError)
         IN  /\ store' = r.store
             /\ del' = DeleteDone(del.fileId, IF r.ok THEN 200 ELSE 500, ioError)
             /\ interfered' = IF r.store # store THEN Interference ELSE interfered
    /\ UNCHANGED << gen, users, reg, list, meta, health, storageType, usedIds, up, sweep, dl, client, tampered >>

(***************************************************************************)
(* POST /cleanup (server/routes/storage.js)                                *)
(***************************************************************************)

\* An orphan search that runs the first loop only.
OrphanedEncryptedFiles(files) ==
    LET IsEncrypted(file) == file.dir = "encrypted/"
        NoMetadata(encryptedFile) == MetadataKey(encryptedFile.name) \notin Range(files)
    IN  SelectSeq(SelectSeq(files, IsEncrypted), NoMetadata)

\* The two loops over encryptedFiles and metadataFiles: orphanedFiles.
OrphanedFiles(files) ==
    LET IsEncrypted(file) == file.dir = "encrypted/"
        IsMetadata(file) == file.dir = "metadata/"
        encryptedFiles == SelectSeq(files, IsEncrypted)
        metadataFiles == SelectSeq(files, IsMetadata)
        NoMetadata(encryptedFile) ==
            MetadataKey(encryptedFile.name) \notin Range(metadataFiles)
        NoEncrypted(metadataFile) ==
            EncryptedKey(metadataFile.name) \notin Range(encryptedFiles)
    IN  SelectSeq(encryptedFiles, NoMetadata) \o SelectSeq(metadataFiles, NoEncrypted)

\* A sweep response that reports every orphan found as cleaned.
SweepDoneAllCleaned(orphanedFiles, cleanedFiles, ioFailure) ==
    [ pc |-> "done", status |-> 200, orphanedFiles |-> orphanedFiles,
      cleanedFiles |-> orphanedFiles, ioFailure |-> ioFailure ]

\* The response of the sweep; ioFailure records whether a backend error
\* (other than a missing file) was met on the way.
SweepDone(orphanedFiles, cleanedFiles, ioFailure) ==
    [ pc |-> "done", status |-> 200, orphanedFiles |-> orphanedFiles,
      cleanedFiles |-> cleanedFiles, ioFailure |-> ioFailure ]

\* A sweep that looks into the blobs it lists and passes over the empty ones.
SweepListedNonEmpty(st, type, ioError) ==
    LET r == listFiles(st, type, "", ioError)
        NonEmpty(file) == file \in DOMAIN st /\ st[file] # << >>
        orphanedFiles == OrphanedFiles(SelectSeq(r.files, NonEmpty))
    IN  IF ~r.ok THEN [pc |-> "done", status |-> 500]
        ELSE IF Len(orphanedFiles) = 0
        THEN SweepDone(<< >>, << >>, ioError)
        ELSE [ pc |-> "deleting", files |-> r.files,
               orphanedFiles |-> orphanedFiles,
               cleanedFiles |-> << >>, next |-> 1, ioFailure |-> ioError ]

\* const files = await storage.listFiles(), and the orphan search: the
\* handler's state when the clean-up loop starts, or its answer when the
\* listing threw or there is no orphan.
SweepListed(st, type, ioError) ==
    LET r == listFiles(st, type, "", ioError)
        orphanedFiles == OrphanedFiles(r.files)
    IN  IF ~r.ok THEN [pc |-> "done", status |-> 500]
        ELSE IF Len(orphanedFiles) = 0
        THEN SweepDone(<< >>, << >>, ioError)
        ELSE [ pc |-> "deleting", files |-> r.files,
               orphanedFiles |-> orphanedFiles,
               cleanedFiles |-> << >>, next |-> 1, ioFailure |-> ioError ]

SweepList ==
    /\ sweep.pc = "idle"
    /\ Accepting
    /\ \E ioError \in BOOLEAN : sweep' = SweepListed(store, storageType, ioError)
    /\ interfered' = FALSE
    /\ UNCHANGED << gen, users, reg, list, meta, health, storageType, store, usedIds, up, del, dl, client, tampered >>

\* One turn of the loop: await storage.deleteFile(orphanedFile) in try/catch.
\* The store and the handler's state after the turn.
SweepDeleted(sw, st, type, ioError) ==
    LET orphanedFile == sw.orphanedFiles[sw.next]
        r == deleteFile(st, type, orphanedFile, ioError)
        cleanedFiles == IF r.ok THEN Append(sw.cleanedFiles, orphanedFile)
                        ELSE sw.cleanedFiles
        ioFailure == sw.ioFailure \/ ioError
    IN  [ store |-> r.store,
          sweep |-> IF sw.next = Len(sw.orphanedFiles)
                    THEN SweepDone(sw.orphanedFiles, cleanedFiles, ioFailure)
                    ELSE [sw EXCEPT !.cleanedFiles = cleanedFiles,
                                    !.next = @ + 1,
                                    !.ioFailure = ioFailure] ]

SweepDelete ==
    /\ sweep.pc = "deleting"
    /\ \E ioError \in BOOLEAN :
         LET r == SweepDeleted(sweep, store, storageType, ioError)
         IN  /\ store' = r.store
             /\ sweep' = r.sweep
    /\ UNCHANGED << gen, users, reg, list, meta, health, storageType, usedIds, up, del, dl, client, tampered,
                    interfered >>

(***************************************************************************)
(* POST /download (server/routes/files.js)                                 *)
(***************************************************************************)

\* The response of a download, with what the handler did on the way: the
\* result of verifyIntegrity ("none" when it was not reached), whether
\* decryptFile (and with it deriveKey) was called, and whether a blob it
\* read had been tampered with.
DownloadDone(d, status, error, body, verified, derivedKey, readTampered) ==
    [ pc |-> "done", fileId |-> d.fileId, password |-> d.password,
      status |-> status, error |-> error, body |-> body, verified |-> verified,
      derivedKey |-> derivedKey, readTampered |-> readTampered ]

\* A catch block that sends the text of the error to the caller.
DownloadCatchForwarding(message) == [status |-> 400, error |-> message.detail]

\* The catch block: error.message.includes('Decryption failed') answers 400
\* 'Invalid password or corrupted file', any other error 500.
DownloadCatch(message) ==
    IF message.prefix = "Decryption failed"
    THEN [status |-> 400, error |-> "Invalid password or corrupted file"]
    ELSE [status |-> 500, error |-> "Failed to download file"]

\* The error downloadFile throws for a missing key or a backend failure.
DownloadFailed == Error("Download failed", "ENOENT or backend error")

\* Validation, then the metadata blob is read and parsed.  `passwords` are
\* the passwords a request can carry.
DownloadMetadata(passwords) ==
    /\ dl.pc = "idle"
    /\ Accepting
    /\ \E fileId \in usedIds, password \in passwords, ioError \in BOOLEAN :
         LET d == [fileId |-> fileId, password |-> password]
             r == downloadFile(store, MetadataKey(fileId), ioError)
         IN  dl' = IF ~ValidPassword(password)
                   THEN DownloadDone(d, 400, "Validation failed", << >>, "none",
                                     FALSE, FALSE)
                   ELSE IF ~r.ok
                   THEN DownloadDone(d, DownloadCatch(DownloadFailed).status,
                                     DownloadCatch(DownloadFailed).error, << >>,
                                     "none", FALSE, FALSE)
                   ELSE [ pc |-> "metadataRead", fileId |-> fileId,
                          password |-> password, wrapper |-> JsonParse(r.data),
                          readTampered |-> MetadataKey(fileId) \in tampered ]
    /\ UNCHANGED << gen, users, reg, list, meta, health, storageType, store, usedIds, up, del, sweep, client, tampered,
                    interfered >>

\* if (!encryption.verifyIntegrity(...)) return res.status(400)...: what the
\* handler does with the outcome of the integrity check.
AfterVerify(d, encryptedData, verified, readTampered) ==
    IF verified = "false"
    THEN DownloadDone(d, 400, "File integrity check failed", << >>, verified,
                      FALSE, readTampered)
    ELSE IF verified = "throw"
    THEN LET caught == DownloadCatch(Error("RangeError",
                                           "Input buffers must have the same byte length"))
         IN  DownloadDone(d, caught.status, caught.error, << >>, verified,
                          FALSE, readTampered)
    ELSE [ pc |-> "verified", fileId |-> d.fileId, password |-> d.password,
           wrapper |-> d.wrapper, encryptedData |-> encryptedData,
           verified |-> verified, readTampered |-> readTampered ]

\* The encrypted blob is read, then the integrity check.
DownloadVerify ==
    /\ dl.pc = "metadataRead"
    /\ \E ioError \in BOOLEAN :
         LET r == downloadFile(store, EncryptedKey(dl.fileId), ioError)
             readTampered == dl.readTampered \/ EncryptedKey(dl.fileId) \in tampered
         IN  dl' = IF ~r.ok
                   THEN DownloadDone(dl, DownloadCatch(DownloadFailed).status,
                                     DownloadCatch(DownloadFailed).error, << >>,
                                     "none", FALSE, readTampered)
                   ELSE AfterVerify(dl, r.data,
                                    verifyIntegrity(r.data, dl.wrapper.metadata,
                                                    dl.wrapper.integrity),
                                    readTampered)
    /\ UNCHANGED << gen, users, reg, list, meta, health, storageType, store, usedIds, up, del, sweep, client, tampered,
                    interfered >>

\* await encryption.decryptFile(encryptedData, wrapper.metadata, password):
\* the decrypted buffer is sent, or the catch block answers.
DownloadDecrypt ==
    /\ dl.pc = "verified"
    /\ LET r == decryptFile(dl.encryptedData, dl.wrapper.metadata, dl.password)
       IN  dl' = IF r.ok
                 THEN DownloadDone(dl, 200, "", r.value, dl.verified, TRUE,
                                   dl.readTampered)
                 ELSE DownloadDone(dl, DownloadCatch(r.message).status,
                                   DownloadCatch(r.message).error,
                                   << >>, dl.verified, TRUE, dl.readTampered)
    /\ UNCHANGED << gen, users, reg, list, meta, health, storageType, store, usedIds, up, del, sweep, client, tampered,
                    interfered >>

(***************************************************************************)
(* GET /list and GET /metadata/:fileId (server/routes/files.js)            *)
(***************************************************************************)

\* const files = await storage.listFiles('metadata/'), mapped to file ids.
ListFiles ==
    /\ list.pc = "idle"
    /\ Accepting
    /\ \E ioError \in BOOLEAN :
         LET r == listFiles(store, storageType, "metadata/", ioError)
         IN  list' = IF ~r.ok THEN [pc |-> "done", status |-> 500]
                     ELSE [ pc |-> "done", status |-> 200,
                            files |-> [i \in 1..Len(r.files) |-> r.files[i].name],
                            count |-> Len(r.files) ]
    /\ UNCHANGED << gen, users, reg, meta, health, storageType, store, usedIds, up, del, sweep, dl,
                    client, tampered, interfered >>

\* A req.params.fileId that is no UUID.
NotUUID == 0

\* isUUID() of express-validator.
IsUUID(fileId) == fileId \in AllIds

\* The metadata blob is read and parsed and its public fields are returned;
\* whatever is thrown is answered 404.  The handler declares the validator
\* body('fileId').isUUID() and never consults validationResult.  readStore
\* records that the handler called the blob store.
GetMetadata ==
    /\ meta.pc = "idle"
    /\ Accepting
    /\ \E fileId \in KnownIds \cup { NotUUID }, ioError \in BOOLEAN :
         LET r == downloadFile(store, MetadataKey(fileId), ioError)
             wrapper == JsonParse(r.data)
         IN  meta' = IF ~r.ok
                     THEN [ pc |-> "done", fileId |-> fileId, status |-> 404,
                            error |-> "File not found", readStore |-> TRUE ]
                     ELSE [ pc |-> "done", fileId |-> fileId, status |-> 200,
                            readStore |-> TRUE,
                            body |-> [ fileId |-> wrapper.id,
                                       filename |-> wrapper.filename,
                                       originalSize |-> wrapper.originalSize,
                                       encryptedSize |-> wrapper.encryptedSize,
                                       timestamp |-> wrapper.timestamp,
                                       version |-> wrapper.version ] ]
    /\ UNCHANGED << gen, users, reg, list, health, storageType, store, usedIds, up, del, sweep, dl,
                    client, tampered, interfered >>

(***************************************************************************)
(* GET /health: checkStorageHealth (server/utils/storage.js)               *)
(***************************************************************************)

\* 'health-check-data', as the character codes the store holds.
testData ==
    << 104, 101, 97, 108, 116, 104, 45, 99, 104, 101, 99, 107, 45, 100, 97, 116, 97 >>

\* What checkStorageHealth returns; testKey is the key it used.
HealthDone(testKey, healthy) ==
    [ pc |-> "done", testKey |-> testKey, healthy |-> healthy ]

\* await this.uploadFile(testKey, testData)
HealthWrite ==
    /\ health.pc = "idle"
    /\ Accepting
    /\ \E timestamp \in Times, ioError \in BOOLEAN :
         LET testKey == HealthKey(timestamp)
             r == uploadFile(store, testKey, testData, ioError)
         IN  /\ store' = r.store
             /\ health' = IF r.ok THEN [pc |-> "written", testKey |-> testKey]
                          ELSE HealthDone(testKey, FALSE)
             /\ interfered' = IF r.ok THEN Interference ELSE interfered
    /\ UNCHANGED << gen, users, reg, list, meta, storageType, usedIds, up, del, sweep, dl, client,
                    tampered >>

\* const downloadedData = await this.downloadFile(testKey)
HealthRead ==
    /\ health.pc = "written"
    /\ \E ioError \in BOOLEAN :
         LET r == downloadFile(store, health.testKey, ioError)
         IN  health' = IF r.ok
                       THEN [ pc |-> "read", testKey |-> health.testKey,
                              downloadedData |-> r.data ]
                       ELSE HealthDone(health.testKey, FALSE)
    /\ UNCHANGED << gen, users, reg, list, meta, storageType, store, usedIds, up, del, sweep, dl,
                    client, tampered, interfered >>

\* await this.deleteFile(testKey); return downloadedData === testData
HealthDelete ==
    /\ health.pc = "read"
    /\ \E ioError \in BOOLEAN :
         LET r == deleteFile(store, storageType, health.testKey, ioError)
         IN  /\ store' = r.store
             /\ health' = HealthDone(health.testKey,
                                     r.ok /\ health.downloadedData = testData)
             /\ interfered' = IF r.store # store THEN Interference ELSE interfered
    /\ UNCHANGED << gen, users, reg, list, meta, storageType, usedIds, up, del, sweep, dl, client,
                    tampered >>

(***************************************************************************)
(* GET /generate-password (server/routes/files.js)                         *)
(***************************************************************************)

\* The state of the vault's handlers and of the blob store.
vaultVars ==
    << storageType, store, usedIds, up, del, sweep, dl, client, tampered,
       interfered, list, meta, health >>

\* The outcomes explored of the randomInt calls of one generateSecurePassword
\* call: every sequence for a short password, and for a long one the
\* sequences that repeat a pair of outcomes.
Draws(length) ==
    IF length <= MaxLength THEN [ 1..length -> randomInt(Len(charset)) ]
    ELSE { [ i \in 1..length |-> pair[((i - 1) % 2) + 1] ] :
             pair \in [ 1..2 -> randomInt(Len(charset)) ] }

\* encryption.generateSecurePassword(length) called on its own, with a
\* length of 0..MaxLength or with no argument (length = 32).
CallGenerateSecurePassword ==
    /\ gen.pc = "idle"
    /\ \E length \in (0..MaxLength) \cup { 32 } :
         \E draws \in Draws(length) :
           gen' = [ pc |-> "returned", length |-> length,
                    password |-> generateSecurePassword(length, draws) ]
    /\ UNCHANGED << vaultVars, users, reg >>

\* The handler: encryption.generateSecurePassword(32), sent with success.
GeneratePassword ==
    /\ gen.pc = "idle"
    /\ \E draws \in Draws(32) :
         gen' = [ pc |-> "done", status |-> 200, length |-> 32,
                  password |-> generateSecurePassword(32, draws) ]
    /\ UNCHANGED << vaultVars, users, reg >>

(***************************************************************************)
(* POST /register (server/routes/auth.js)                                  *)
(***************************************************************************)

\* const users = new Map()
EmptyUsers == [ username \in {} |-> << >> ]

\* "alice", "bob", "al"
Usernames == { << 97, 108, 105, 99, 101 >>, << 98, 111, 98 >>, << 97, 108 >> }

\* "a@x.io", "b@x.io", "nope"
Emails ==
    { << 97, 64, 120, 46, 105, 111 >>, << 98, 64, 120, 46, 105, 111 >>,
      << 110, 111, 112, 101 >> }

\* Date.now() readings of the register handler.
AuthTimes == { 1700000000, 1700000001 }

\* body('username').isLength({ min: 3, max: 30 })
ValidUsername(username) == Len(username) >= 3 /\ Len(username) <= 30

\* body('email').isEmail(), for the addresses above: a local part, '@', a
\* domain with a dot inside it.
IsEmail(email) ==
    \E i \in 2..Len(email) :
      /\ email[i] = 64
      /\ \E j \in (i + 2)..(Len(email) - 1) : email[j] = 46

\* bcrypt.hash(password, saltRounds): the hash of the password under a salt
\* of its own (saltToken names the salt bcrypt drew).
bcryptHash(password, saltRounds, saltToken) ==
    [ bcrypt |-> password, rounds |-> saltRounds, salt |-> saltToken ]

\* jwt.sign(payload, JWT_SECRET, { expiresIn: '24h' })
jwtSign(payload) == [ jwt |-> payload, expiresIn |-> "24h" ]

\* users.set(username, user)
UsersSet(username, user) == (username :> user) @@ users

\* Validation and the users.has(username) check, up to await bcrypt.hash.
\* Registrant r serves the r-th register request to arrive.
RegisterCheck(r) ==
    /\ reg[r].pc = "idle"
    /\ \A q \in Registrants : q < r => reg[q].pc # "idle"
    /\ \E username \in Usernames, password \in { PasswordA, ShortPassword },
          email \in Emails :
         reg' = [reg EXCEPT ![r] =
                   IF ~ValidUsername(username) \/ ~ValidPassword(password)
                        \/ ~IsEmail(email)
                   THEN [ pc |-> "done", status |-> 400, username |-> username,
                          error |-> "validation" ]
                   ELSE IF username \in DOMAIN users
                   THEN [ pc |-> "done", status |-> 400, username |-> username,
                          error |-> "Username already exists" ]
                   ELSE [ pc |-> "hashing", username |-> username,
                          password |-> password, email |-> email ]]
    /\ UNCHANGED << vaultVars, gen, users >>

\* After the hash: the user record, users.set(username, user), the token
\* and the success response.
RegisterCreate(r) ==
    /\ reg[r].pc = "hashing"
    /\ \E now \in AuthTimes, createdAt \in AuthTimes :
         /\ createdAt >= now
         /\ LET hashedPassword == bcryptHash(reg[r].password, 12, r)
                user == [ id |-> now, username |-> reg[r].username,
                          email |-> reg[r].email, password |-> hashedPassword,
                          createdAt |-> createdAt, lastLogin |-> "null" ]
            IN  /\ users' = UsersSet(reg[r].username, user)
                /\ reg' = [reg EXCEPT ![r] =
                             [ pc |-> "done", status |-> 200,
                               username |-> user.username,
                               token |-> jwtSign([userId |-> user.id,
                                                  username |-> user.username]),
                               user |-> [ id |-> user.id, username |-> user.username,
                                          email |-> user.email,
                                          createdAt |-> user.createdAt ] ]]
    /\ UNCHANGED << vaultVars, gen >>

(***************************************************************************)
(* Tampering: one change of the stored bytes behind the store's back       *)
(***************************************************************************)

\* The other value of a character, number or string that one flipped bit gives.
FlipNumber(n) == IF n % 2 = 0 THEN n + 1 ELSE n - 1

\* A hex string with one bit changed: another digit ("value"), or a
\* character that is no hex digit, which shortens what it decodes to.
FlipHex(str, how) ==
    IF how = "value" THEN [hexOf |-> [flipped |-> str.hexOf], bytes |-> str.bytes]
    ELSE [hexOf |-> str.hexOf, bytes |-> str.bytes - 1]

\* A salt or IV hex string with another digit: the hex of another token.
FlipToken(str, how) ==
    IF how = "value" THEN [hexOf |-> FlipNumber(str.hexOf), bytes |-> str.bytes]
    ELSE [hexOf |-> str.hexOf, bytes |-> str.bytes - 1]

WrapperFields ==
    { "id", "filename", "originalSize", "encryptedSize", "timestamp", "version",
      "metadata.salt", "metadata.iv", "metadata.tag", "metadata.algorithm",
      "metadata.iterations", "metadata.version", "integrity" }

TamperedWrapper(w, field, how) ==
    CASE field = "id" -> [w EXCEPT !.id = FlipNumber(@)]
      [] field = "filename" -> [w EXCEPT !.filename = "report.pdg"]
      [] field = "originalSize" -> [w EXCEPT !.originalSize = FlipNumber(@)]
      [] field = "encryptedSize" -> [w EXCEPT !.encryptedSize = FlipNumber(@)]
      [] field = "timestamp" -> [w EXCEPT !.timestamp = FlipNumber(@)]
      [] field = "version" -> [w EXCEPT !.version = "1.0.1"]
      [] field = "metadata.salt" -> [w EXCEPT !.metadata.salt = FlipToken(@, how)]
      [] field = "metadata.iv" -> [w EXCEPT !.metadata.iv = FlipToken(@, how)]
      [] field = "metadata.tag" -> [w EXCEPT !.metadata.tag = FlipHex(@, how)]
      [] field = "metadata.algorithm" -> [w EXCEPT !.metadata.algorithm = "aes-256-gcl"]
      [] field = "metadata.iterations" -> [w EXCEPT !.metadata.iterations = FlipNumber(@)]
      [] field = "metadata.version" -> [w EXCEPT !.metadata.version = "1.0.1"]
      [] field = "integrity" -> [w EXCEPT !.integrity = FlipHex(@, how)]

\* Characters a flipped bit of a hex digit can give: '0', '1', 'f', 'g', 'F'.
TamperChars == { 48, 49, 102, 103, 70 }

\* One bit of one stored blob changes: a character of the ciphertext (its
\* first or its last), or one field of the serialized wrapper.
Tamper ==
    /\ tampered = {}
    /\ \E key \in DOMAIN store :
         /\ IF key.dir = "encrypted/"
            THEN \E i \in {1, Len(store[key])} \cap DOMAIN store[key], c \in TamperChars :
                   store' = [store EXCEPT ![key] = [@ EXCEPT ![i] = c]]
            ELSE \E field \in WrapperFields, how \in {"value", "malformed"} :
                   store' = [store EXCEPT ![key] =
                               JsonStringify(TamperedWrapper(JsonParse(@), field, how))]
         /\ store' # store
         /\ tampered' = {key}
    /\ UNCHANGED << gen, users, reg, list, meta, health, storageType, usedIds, up, del, sweep, dl, client, interfered >>

\* A hex string with a character that is no hex digit in its first pair:
\* it decodes to no byte at all.
EmptiedHex(str) == [str EXCEPT !.bytes = 0]

\* The cipher metadata with its salt, IV or tag changed: to another value,
\* to one that decodes to one byte less, or to one that decodes to no byte.
ForgedMetadata(metadata, field, how) ==
    CASE field = "salt" ->
           [metadata EXCEPT !.salt = IF how = "empty" THEN EmptiedHex(@)
                                     ELSE FlipToken(@, how)]
      [] field = "iv" ->
           [metadata EXCEPT !.iv = IF how = "empty" THEN EmptiedHex(@)
                                   ELSE FlipToken(@, how)]
      [] field = "tag" ->
           [metadata EXCEPT !.tag = IF how = "empty" THEN EmptiedHex(@)
                                    ELSE FlipHex(@, how)]

\* A stored wrapper is replaced by one with a changed salt, IV or tag and
\* the integrity digest recomputed over the stored ciphertext and the
\* changed metadata (the digest is not keyed: whoever can write the store
\* can compute it).
Forge ==
    /\ tampered = {}
    /\ \E id \in usedIds, field \in {"salt", "iv", "tag"},
          how \in {"value", "malformed", "empty"} :
         /\ EncryptedKey(id) \in DOMAIN store
         /\ MetadataKey(id) \in DOMAIN store
         /\ LET w == JsonParse(store[MetadataKey(id)])
                metadata == ForgedMetadata(w.metadata, field, how)
                forged == [w EXCEPT !.metadata = metadata,
                                    !.integrity = generateIntegrityHash(
                                                    store[EncryptedKey(id)], metadata)]
            IN  store' = [store EXCEPT ![MetadataKey(id)] = JsonStringify(forged)]
         /\ tampered' = {MetadataKey(id)}
    /\ UNCHANGED << gen, users, reg, list, meta, health, storageType, usedIds, up, del, sweep, dl,
                    client, interfered >>

(***************************************************************************)
(* Specifications                                                          *)
(***************************************************************************)

\* A record an earlier run of the server left in the store.
StoredRecord(fileId) ==
    createSecureFileWrapper(<< 104, 105 >>, PasswordA, "report.pdf",
                            1700000000, fileId, fileId, fileId)

\* What an earlier run can have left of a record: nothing, both blobs, the
\* encrypted blob alone (its metadata write failed) or the metadata blob
\* alone (a delete failed half way).
StoredShapes == { "none", "both", "encrypted", "metadata" }

StoreOf(shape) ==
    LET keys == { EncryptedKey(i) : i \in { j \in StoredIds : shape[j] \in {"both", "encrypted"} } }
                \cup { MetadataKey(i) : i \in { j \in StoredIds : shape[j] \in {"both", "metadata"} } }
    IN  [ k \in keys |-> IF k.dir = "encrypted/" THEN StoredRecord(k.name).encryptedData
                         ELSE JsonStringify(StoredRecord(k.name).wrapper) ]

InitHandlers ==
    /\ storageType \in { "local", "s3" }
    /\ up = [u \in Uploaders |-> [pc |-> "idle"]]
    /\ del = [pc |-> "idle"]
    /\ sweep = [pc |-> "idle"]
    /\ dl = [pc |-> "idle"]
    /\ tampered = {}
    /\ interfered = FALSE
    /\ list = [pc |-> "idle"]
    /\ meta = [pc |-> "idle"]
    /\ health = [pc |-> "idle"]
    /\ gen = [pc |-> "idle"]
    /\ users = EmptyUsers
    /\ reg = [r \in Registrants |-> [pc |-> "idle"]]

\* The server starts on the store its earlier runs left.
Init ==
    /\ InitHandlers
    /\ \E shape \in [StoredIds -> StoredShapes] : store = StoreOf(shape)
    /\ usedIds = StoredIds
    /\ client = [i \in StoredIds |-> [file |-> << 104, 105 >>, password |-> PasswordA,
                                     salt |-> i, iv |-> i]]

\* Uploads, a delete and a cleanup sweep, interleaved.
Next ==
    \/ \E u \in Uploaders : UploadCreate(u, FewInputs)
    \/ \E u \in Uploaders : UploadStoreEncrypted(u)
    \/ \E u \in Uploaders : UploadStoreMetadata(u)
    \/ DeleteEncrypted
    \/ DeleteMetadata
    \/ SweepList
    \/ SweepDelete

Spec == Init /\ [][Next]_vars

\* The vault on an empty store: one upload, one change of the stored bytes,
\* one download.
InitVault ==
    /\ InitHandlers
    /\ store = EmptyStore
    /\ usedIds = StoredIds
    /\ client = [i \in {} |-> << >>]

NextVault ==
    \/ UploadCreate(1, AllInputs)
    \/ UploadStoreEncrypted(1)
    \/ UploadStoreMetadata(1)
    \/ Tamper
    \/ DownloadMetadata(Passwords)
    \/ DownloadVerify
    \/ DownloadDecrypt

SpecVault == InitVault /\ [][NextVault]_vars

\* The vault with a forged record: one upload, one forgery of the stored
\* wrapper, one download.
NextForge ==
    \/ UploadCreate(1, SomeInputs)
    \/ UploadStoreEncrypted(1)
    \/ UploadStoreMetadata(1)
    \/ Forge
    \/ DownloadMetadata(Passwords)
    \/ DownloadVerify
    \/ DownloadDecrypt

SpecForge == InitVault /\ [][NextForge]_vars

\* A delete and a cleanup sweep, interleaved, on the store earlier runs left.
NextRemovals ==
    \/ DeleteEncrypted
    \/ DeleteMetadata
    \/ SweepList
    \/ SweepDelete

SpecRemovals == Init /\ [][NextRemovals]_vars

\* Uploads alone, interleaved, on an empty store.
NextCreates ==
    \/ \E u \in Uploaders : UploadCreate(u, SomeInputs)
    \/ \E u \in Uploaders : UploadStoreEncrypted(u)
    \/ \E u \in Uploaders : UploadStoreMetadata(u)

SpecCreates == InitVault /\ [][NextCreates]_vars

\* Uploads alone and a listing, on an empty store.
NextListing ==
    \/ NextCreates
    \/ ListFiles

SpecListing == InitVault /\ [][NextListing]_vars

\* The server starts on a store that holds the complete records of its
\* earlier runs.
InitOps ==
    /\ InitHandlers
    /\ store = StoreOf([i \in StoredIds |-> "both"])
    /\ usedIds = StoredIds
    /\ client = [i \in StoredIds |-> [file |-> << 104, 105 >>, password |-> PasswordA,
                                     salt |-> i, iv |-> i]]

\* Every operation of the server on the store its earlier runs left: one
\* upload, a download, the listing, a metadata read, a delete, a sweep and
\* a health check, interleaved.
NextOps ==
    \/ UploadCreate(1, FewInputs)
    \/ UploadStoreEncrypted(1)
    \/ UploadStoreMetadata(1)
    \/ DownloadMetadata({ PasswordA })
    \/ DownloadVerify
    \/ DownloadDecrypt
    \/ ListFiles
    \/ GetMetadata
    \/ DeleteEncrypted
    \/ DeleteMetadata
    \/ SweepList
    \/ SweepDelete
    \/ HealthWrite
    \/ HealthRead
    \/ HealthDelete

SpecOps == InitOps /\ [][NextOps]_vars

\* The password generator, called on its own and through its endpoint.
NextPassword ==
    \/ CallGenerateSecurePassword
    \/ GeneratePassword

SpecPassword == InitVault /\ [][NextPassword]_vars

\* Register requests, interleaved.
NextAuth ==
    \/ \E r \in Registrants : RegisterCheck(r)
    \/ \E r \in Registrants : RegisterCreate(r)

SpecAuth == InitVault /\ [][NextAuth]_vars

(***************************************************************************)
(* Properties of the vault (SpecVault)                                     *)
(***************************************************************************)

\* Uploader u holds the record createSecureFileWrapper returned.
HasWrapper(u) ==
    \/ up[u].pc \in { "created", "encryptedStored" }
    \/ up[u].pc = "done" /\ up[u].status = 200

\* The download answered after it had read both blobs of its record.
Opened == dl.pc = "done" /\ dl.verified # "none"

\* C1 -- Round trip.  Whatever file (the empty one included) and password of
\* at least 8 characters an upload was given, the record it created passes
\* verifyIntegrity, and decryptFile with the same password returns the bytes
\* of the file; and a download that read both blobs, untampered, with the
\* password of the upload answers 200 with exactly those bytes.
RoundTrip ==
    /\ \A u \in Uploaders :
         HasWrapper(u) =>
           LET w == up[u].wrapper
               sent == client[w.id]
           IN  /\ verifyIntegrity(up[u].encryptedData, w.metadata, w.integrity) = "true"
               /\ decryptFile(up[u].encryptedData, w.metadata, sent.password)
                    = [ok |-> TRUE, value |-> sent.file]
    /\ (Opened /\ ~dl.readTampered /\ dl.password = client[dl.fileId].password)
         => /\ dl.status = 200
            /\ dl.body = client[dl.fileId].file

\* A four-byte file came back from a download with the upload's password.
RoundTripWitness ==
    /\ Opened
    /\ ~dl.readTampered
    /\ dl.password = client[dl.fileId].password
    /\ client[dl.fileId].file = << 0, 255, 128, 7 >>
    /\ dl.status = 200
    /\ dl.body = << 0, 255, 128, 7 >>

\* C2 (as the code has it) -- Wrong password fails.  For a record created
\* with password W and a password W' whose HMAC key block differs from W's
\* (W' differs from W otherwise than by trailing NUL characters), decryptFile
\* fails, and a download that reaches decryption with W' answers 400
\* "Invalid password or corrupted file" with no plaintext bytes.
WrongPasswordFails ==
    /\ \A u \in Uploaders :
         HasWrapper(u) =>
           \A password \in Passwords :
             HmacKeyBlock(password) # HmacKeyBlock(client[up[u].wrapper.id].password)
               => LET r == decryptFile(up[u].encryptedData, up[u].wrapper.metadata,
                                       password)
                  IN  ~r.ok /\ r.value = << >>
    /\ ( /\ Opened
         /\ dl.derivedKey
         /\ HmacKeyBlock(dl.password) # HmacKeyBlock(client[dl.fileId].password) )
         => /\ dl.status = 400
            /\ dl.error = "Invalid password or corrupted file"
            /\ dl.body = << >>

\* A download with "hunter22" of a record created with "password" failed.
WrongPasswordWitness ==
    /\ Opened
    /\ dl.derivedKey
    /\ dl.password = PasswordB
    /\ client[dl.fileId].password = PasswordA
    /\ dl.status = 400
    /\ dl.error = "Invalid password or corrupted file"

\* C2 as stated: every password different from the one of the upload fails.
AnyOtherPasswordFails ==
    (Opened /\ dl.derivedKey /\ dl.password # client[dl.fileId].password)
      => /\ dl.status = 400
         /\ dl.error = "Invalid password or corrupted file"
         /\ dl.body = << >>

\* C3 as stated: a download that read a blob of which one bit had been
\* changed answers with the integrity error, without deriving a key.
TamperDetected ==
    (Opened /\ dl.readTampered)
      => /\ dl.status = 400
         /\ dl.error = "File integrity check failed"
         /\ ~dl.derivedKey

\* C9 as stated: whenever the integrity check does not succeed, the download
\* answers with the integrity error and decryptFile is not called.
VerifyFailureIsIntegrityError ==
    (Opened /\ dl.verified # "true")
      => /\ dl.status = 400
         /\ dl.error = "File integrity check failed"
         /\ ~dl.derivedKey

(***************************************************************************)
(* Properties of the store under uploads, deletes and the sweep (Spec)     *)
(***************************************************************************)

\* The step on which the sweep answers with its report.
SweepCompletes == sweep.pc # "done" /\ sweep'.pc = "done" /\ sweep'.status = 200

\* The sweep that answers on this step ran without another handler writing
\* the store between its listing and its last deletion, and met no backend
\* error.
Quiescent == ~interfered' /\ ~sweep'.ioFailure

\* The storage keys the sweep that answers on this step had listed.
ListedKeys ==
    LET files == IF sweep.pc = "deleting" THEN sweep.files
                 ELSE listFiles(store, storageType, "", FALSE).files
    IN  { k \in Range(files) : k.dir \in { "encrypted/", "metadata/" } }

\* The ids that have an encrypted blob, and a metadata blob, among keys.
EncryptedIds(keys) == { k.name : k \in { x \in keys : x.dir = "encrypted/" } }

MetadataIds(keys) == { k.name : k \in { x \in keys : x.dir = "metadata/" } }

DeleteNames(id) == del.pc # "idle" /\ del.fileId = id

\* The keys the sweep has deleted so far.
SweepCleaned ==
    IF sweep.pc = "deleting" \/ (sweep.pc = "done" /\ sweep.status = 200)
    THEN Range(sweep.cleanedFiles) ELSE {}

\* C5 as stated: the sweep never deletes a blob of a record whose upload
\* answers success (and that no delete request names).
SweepSparesUploads ==
    \A u \in Uploaders :
      (up[u].pc = "done" /\ up[u].status = 200 /\ ~DeleteNames(up[u].fileId))
        => /\ EncryptedKey(up[u].fileId) \notin SweepCleaned
           /\ MetadataKey(up[u].fileId) \notin SweepCleaned

\* The ids of which exactly one of the two blobs is in a store.
Orphans(st) ==
    { i \in AllIds : (EncryptedKey(i) \in DOMAIN st) # (MetadataKey(i) \in DOMAIN st) }

VanishedOrphanCounted ==
    (sweep.pc = "done" /\ sweep.status = 200 /\ ~sweep.ioFailure)
      => sweep.cleanedFiles = sweep.orphanedFiles

\* C8 as stated: deleteFile of a key that is not in the store acknowledges
\* and leaves the store unchanged.
DeleteIdempotent ==
    \A key \in { EncryptedKey(i) : i \in AllIds } \cup { MetadataKey(i) : i \in AllIds } :
      key \notin DOMAIN store
        => deleteFile(store, storageType, key, FALSE) = [ok |-> TRUE, store |-> store]

\* C10 as stated: when an upload answers success both of its keys are in
\* the store, holding the ciphertext and the serialized wrapper, and the
\* step wrote no other key; when a delete answers success neither key of its
\* id is in the store.
Lifecycle ==
    [][ /\ \A u \in Uploaders :
              ( /\ up[u].pc # "done" /\ up'[u].pc = "done" /\ up'[u].status = 200
                /\ ~DeleteNames(up'[u].fileId) )
                => /\ EncryptedKey(up'[u].fileId) \in DOMAIN store'
                   /\ MetadataKey(up'[u].fileId) \in DOMAIN store'
                   /\ store'[EncryptedKey(up'[u].fileId)] = up'[u].encryptedData
                   /\ store'[MetadataKey(up'[u].fileId)] = JsonStringify(up'[u].wrapper)
                   /\ DOMAIN store' \ DOMAIN store \subseteq { MetadataKey(up'[u].fileId) }
        /\ (del.pc # "done" /\ del'.pc = "done" /\ del'.status = 200)
              => /\ EncryptedKey(del'.fileId) \notin DOMAIN store'
                 /\ MetadataKey(del'.fileId) \notin DOMAIN store'
      ]_vars

(***************************************************************************)
(* Properties of the records under every operation (SpecOps, Spec)         *)
(***************************************************************************)

\* The keys of the records: encrypted/<id> and metadata/<id>.json.
RecordKeys(st) == { k \in DOMAIN st : k.dir \in { "encrypted/", "metadata/" } }

\* C11 -- No update in place.  On every step of every handler (upload,
\* download, list, metadata read, delete, cleanup, health check) a record key
\* that stays in the store keeps its bytes, and a record key leaves the
\* store only on a step of the delete handler or of the cleanup sweep.
NoUpdateInPlace ==
    [][ \A k \in RecordKeys(store) :
          /\ k \in DOMAIN store' => store'[k] = store[k]
          /\ k \notin DOMAIN store' => (del' # del \/ sweep' # sweep)
      ]_vars

\* After an upload answered success, a sweep and a health check ran to their
\* answers and both blobs of the upload hold the bytes it wrote.
NoUpdateInPlaceWitness ==
    /\ up[1].pc = "done" /\ up[1].status = 200
    /\ sweep.pc = "done"
    /\ health.pc = "done" /\ health.healthy
    /\ EncryptedKey(up[1].fileId) \in DOMAIN store
    /\ MetadataKey(up[1].fileId) \in DOMAIN store
    /\ store[EncryptedKey(up[1].fileId)] = up[1].encryptedData
    /\ JsonParse(store[MetadataKey(up[1].fileId)]) = up[1].wrapper

\* C12 -- Identifier uniqueness.  The id a create assigns is none of the ids
\* assigned before (those of the records of earlier runs and of every
\* earlier create, deleted or not), so no two wrappers have the same id.
IdentifierUnique ==
    [][ \A u \in Uploaders :
          (up[u].pc = "idle" /\ up'[u].pc = "created")
            => /\ up'[u].wrapper.id \notin usedIds
               /\ up'[u].wrapper.id \notin { k.name : k \in RecordKeys(store) }
               /\ \A v \in Uploaders \ {u} :
                    HasWrapper(v) => up[v].wrapper.id # up'[u].wrapper.id
      ]_vars

\* Record 1 was deleted, and two uploads have created wrappers with two
\* different ids, neither of them 1.
IdentifierUniqueWitness ==
    /\ del.pc = "done" /\ del.status = 200 /\ del.fileId = 1
    /\ HasWrapper(1) /\ HasWrapper(2)
    /\ Cardinality({ 1, up[1].wrapper.id, up[2].wrapper.id }) = 3

(***************************************************************************)
(* Properties of concurrent creates (SpecCreates)                          *)
(***************************************************************************)

\* C13 (as the code has it) -- Freshness.  Any two creates, with the same
\* file and password or not, produce wrappers whose salts differ, whose
\* nonces differ and whose tags differ, and whose ciphertexts differ unless
\* both files are empty (the ciphertext of the empty file is the empty
\* string).
Freshness ==
    \A u, v \in Uploaders :
      (u # v /\ HasWrapper(u) /\ HasWrapper(v))
        => /\ up[u].wrapper.metadata.salt # up[v].wrapper.metadata.salt
           /\ up[u].wrapper.metadata.iv # up[v].wrapper.metadata.iv
           /\ up[u].wrapper.metadata.tag # up[v].wrapper.metadata.tag
           /\ (up[u].wrapper.originalSize > 0 \/ up[v].wrapper.originalSize > 0)
                => up[u].encryptedData # up[v].encryptedData

\* Two creates of the same two-byte file with the same password.
FreshnessWitness ==
    /\ HasWrapper(1) /\ HasWrapper(2)
    /\ client[up[1].wrapper.id].file = << 104, 105 >>
    /\ client[up[2].wrapper.id].file = << 104, 105 >>
    /\ client[up[1].wrapper.id].password = client[up[2].wrapper.id].password
    /\ up[1].encryptedData # up[2].encryptedData

\* C13 as stated: any two creates differ in salt, nonce and ciphertext.
FreshnessOfCiphertext ==
    \A u, v \in Uploaders :
      (u # v /\ HasWrapper(u) /\ HasWrapper(v))
        => /\ up[u].wrapper.metadata.salt # up[v].wrapper.metadata.salt
           /\ up[u].wrapper.metadata.iv # up[v].wrapper.metadata.iv
           /\ up[u].encryptedData # up[v].encryptedData

\* Uploader u has answered success.
Succeeded(u) == up[u].pc = "done" /\ up[u].status = 200

\* C19 -- Concurrent creates are independent.  In every interleaving of the
\* uploads, no step changes or removes a blob that is in the store; and
\* every upload that has answered success has an id of its own and its own
\* two blobs in the store, which pass the integrity check and decrypt, with
\* its password, to its file.
CreatesIndependent ==
    [][ /\ \A k \in DOMAIN store : k \in DOMAIN store' /\ store'[k] = store[k]
        /\ \A u \in Uploaders :
             (up'[u].pc = "done" /\ up'[u].status = 200) =>
               LET id == up'[u].fileId
                   encryptedData == store'[EncryptedKey(id)]
                   wrapper == JsonParse(store'[MetadataKey(id)])
               IN  /\ \A v \in Uploaders \ {u} :
                        (up'[v].pc = "done" /\ up'[v].status = 200)
                          => up'[v].fileId # id
                   /\ EncryptedKey(id) \in DOMAIN store'
                   /\ MetadataKey(id) \in DOMAIN store'
                   /\ encryptedData = up'[u].encryptedData
                   /\ wrapper = up'[u].wrapper
                   /\ verifyIntegrity(encryptedData, wrapper.metadata, wrapper.integrity)
                        = "true"
                   /\ decryptFile(encryptedData, wrapper.metadata, client'[id].password).ok
                   /\ decryptFile(encryptedData, wrapper.metadata, client'[id].password).value
                        = client'[id].file
      ]_vars

\* Two uploads of different files with different passwords both answered
\* success.
CreatesIndependentWitness ==
    /\ Succeeded(1) /\ Succeeded(2)
    /\ client[up[1].fileId].file # client[up[2].fileId].file
    /\ client[up[1].fileId].password # client[up[2].fileId].password
    /\ Cardinality(DOMAIN store) = 4

(***************************************************************************)
(* Properties of the nonce and of the error responses                      *)
(***************************************************************************)

\* C14 as stated: decrypting a record with a metadata.iv other than the one
\* recorded at creation, all else equal, does not return the plaintext.
NonceBinds ==
    \A u \in Uploaders :
      HasWrapper(u) =>
        LET metadata == ForgedMetadata(up[u].wrapper.metadata, "iv", "value")
            sent == client[up[u].wrapper.id]
            r == decryptFile(up[u].encryptedData, metadata, sent.password)
        IN  ~(r.ok /\ r.value = sent.file)

\* C15 as stated: a download of an id whose metadata blob or whose encrypted
\* blob is not in the store is answered 404.
NotFoundAnswered ==
    [][ /\ ( /\ dl.pc = "idle" /\ dl'.pc = "done"
             /\ ValidPassword(dl'.password)
             /\ MetadataKey(dl'.fileId) \notin DOMAIN store )
           => dl'.status = 404
        /\ ( /\ dl.pc = "metadataRead" /\ dl'.pc = "done"
             /\ EncryptedKey(dl'.fileId) \notin DOMAIN store )
           => dl'.status = 404
      ]_vars

\* What the caller of a download is sent (status and message).
Response(d) == [status |-> d.status, error |-> d.error]

\* C16 as stated: the response to a download whose integrity digest does not
\* match is the response to a download whose decryption fails.
NoOracle ==
    (Opened /\ dl.verified = "false")
      => Response(dl) = DownloadCatch(Error("Decryption failed",
                            "Unsupported state or unable to authenticate data"))

\* C17 -- Opaque decryption failure.  A download whose decryptFile fails
\* answers 400 'Invalid password or corrupted file' and nothing else,
\* whichever password was sent and whether the tag failed to authenticate
\* or was refused for its length; the message sent is not the text of the
\* error decrypt threw.
OpaqueDecryptionFailure ==
    /\ (Opened /\ dl.derivedKey /\ dl.status # 200)
         => Response(dl) = [status |-> 400, error |-> "Invalid password or corrupted file"]
    /\ dl.pc = "verified" =>
         \A password \in Passwords :
           LET r == decryptFile(dl.encryptedData, dl.wrapper.metadata, password)
           IN  ~r.ok =>
                 /\ DownloadCatch(r.message)
                      = [status |-> 400, error |-> "Invalid password or corrupted file"]
                 /\ DownloadCatch(r.message).error # r.message.detail

\* A download with the right password of a record whose forged metadata
\* passes the integrity check failed in decryption.
OpaqueDecryptionFailureWitness ==
    /\ Opened /\ dl.derivedKey /\ dl.readTampered
    /\ dl.password = client[dl.fileId].password
    /\ Response(dl) = [status |-> 400, error |-> "Invalid password or corrupted file"]

\* C18 as stated: a metadata request whose id is no UUID is refused with a
\* validation error and without a read of the blob store.
MalformedIdRefused ==
    (meta.pc = "done" /\ ~IsUUID(meta.fileId))
      => meta.status = 400 /\ ~meta.readStore

\* C20 as stated: when checkStorageHealth has returned, whatever the
\* outcome, the throwaway key is not in the store.
HealthKeyRemoved ==
    health.pc = "done" => health.testKey \notin DOMAIN store

\* Whether a storage key starts with a listing prefix.
StartsWith(key, prefix) == prefix = "" \/ key.dir = prefix

\* C21 as stated: listFiles(prefix) returns the keys of the store that start
\* with the prefix, each once, and nothing else; list('') returns every
\* stored key and list('metadata/') the metadata keys.
ListExact ==
    \A prefix \in { "", "encrypted/", "metadata/" } :
      LET files == listFiles(store, storageType, prefix, FALSE).files
      IN  /\ Range(files) = { k \in DOMAIN store : StartsWith(k, prefix) }
          /\ Cardinality(Range(files)) = Len(files)

\* C22 -- Size fields.  In every wrapper createSecureFileWrapper returns,
\* originalSize is the number of bytes of the plaintext buffer, encryptedSize
\* is the length of the ciphertext returned with it (the hex string stored
\* under encrypted/<id>, two characters for each byte of the base64 text) and
\* version is '1.0.0'; the stored blobs carry the same sizes.
WrapperSizes ==
    \A u \in Uploaders :
      HasWrapper(u) =>
        LET w == up[u].wrapper
            ek == EncryptedKey(w.id)
            mk == MetadataKey(w.id)
        IN  /\ w.originalSize = Len(client[w.id].file)
            /\ w.encryptedSize = Len(up[u].encryptedData)
            /\ w.encryptedSize = 8 * ((w.originalSize + 2) \div 3)
            /\ w.version = "1.0.0"
            /\ (ek \in DOMAIN store /\ ek \notin tampered)
                 => Len(store[ek]) = w.encryptedSize
            /\ (mk \in DOMAIN store /\ mk \notin tampered)
                 => /\ JsonParse(store[mk]).originalSize = Len(client[w.id].file)
                    /\ JsonParse(store[mk]).encryptedSize = Len(up[u].encryptedData)
                    /\ JsonParse(store[mk]).version = "1.0.0"

\* An upload of the two-byte file succeeded: 2 bytes of plaintext, 8
\* characters of ciphertext in the store.
WrapperSizesWitness ==
    \E u \in Uploaders :
      /\ Succeeded(u)
      /\ up[u].wrapper.originalSize = 2
      /\ up[u].wrapper.encryptedSize = 8
      /\ EncryptedKey(up[u].fileId) \in DOMAIN store
      /\ EncryptedKey(up[u].fileId) \notin tampered
      /\ Len(store[EncryptedKey(up[u].fileId)]) = 8

\* C23 -- Sweep partial progress.  Every turn of the sweep's clean-up loop
\* keeps the list of orphans found as it is; the orphan of the turn is added
\* to cleanedFiles when its deletion succeeded (it is then not in the store)
\* and only then; a deletion that failed removes nothing and does not stop
\* the loop, which goes on to the next orphan and answers 200 after the last.
SweepReportsProgress ==
    [][ (sweep.pc = "deleting" /\ sweep' # sweep) =>
          LET orphanedFile == sweep.orphanedFiles[sweep.next]
              cleaned == sweep'.cleanedFiles = Append(sweep.cleanedFiles, orphanedFile)
          IN  /\ sweep.orphanedFiles = OrphanedFiles(sweep.files)
              /\ sweep'.orphanedFiles = sweep.orphanedFiles
              /\ cleaned \/ sweep'.cleanedFiles = sweep.cleanedFiles
              /\ cleaned => /\ orphanedFile \notin DOMAIN store'
                            /\ storageType = "local" => orphanedFile \in DOMAIN store
              /\ ~cleaned => store' = store
              /\ (orphanedFile \in DOMAIN store /\ orphanedFile \notin DOMAIN store')
                   => cleaned
              /\ Range(sweep'.cleanedFiles) \subseteq Range(sweep'.orphanedFiles)
              /\ IF sweep.next = Len(sweep.orphanedFiles)
                 THEN sweep'.pc = "done" /\ sweep'.status = 200
                 ELSE sweep'.pc = "deleting" /\ sweep'.next = sweep.next + 1
      ]_vars

\* A sweep found two orphans, failed to delete the first and deleted the
\* second: both are reported found, the second alone cleaned.
SweepReportsProgressWitness ==
    /\ sweep.pc = "done" /\ sweep.status = 200
    /\ Len(sweep.orphanedFiles) = 2
    /\ sweep.cleanedFiles = << sweep.orphanedFiles[2] >>
    /\ sweep.orphanedFiles[1] \in DOMAIN store
    /\ sweep.orphanedFiles[2] \notin DOMAIN store

\* The store with the same keys and every blob emptied.
Blank(st) == [ k \in DOMAIN st |-> << >> ]

\* C24 -- The sweep performs no reads or writes of blobs.  No step of the
\* sweep adds a key to the store or changes the bytes under one, and what
\* the sweep does and answers is what it would do and answer had every blob
\* other bytes: it depends on the keys listed alone.
SweepTouchesNoBlob ==
    [][ (sweep' # sweep) =>
          /\ \A k \in DOMAIN store' : k \in DOMAIN store /\ store'[k] = store[k]
          /\ sweep.pc = "idle" =>
               /\ store' = store
               /\ \E ioError \in BOOLEAN :
                    sweep' = SweepListed(Blank(store), storageType, ioError)
          /\ sweep.pc = "deleting" =>
               \E ioError \in BOOLEAN :
                 LET r == SweepDeleted(sweep, Blank(store), storageType, ioError)
                 IN  sweep' = r.sweep /\ DOMAIN store' = DOMAIN r.store
      ]_vars

\* A sweep completed that deleted an orphan whose blob was not empty, with
\* blobs that are not empty left in the store.
SweepTouchesNoBlobWitness ==
    /\ sweep.pc = "done" /\ sweep.status = 200
    /\ Len(sweep.cleanedFiles) > 0
    /\ \E k \in DOMAIN store : store[k] # << >>

\* The fields of a wrapper and of its cipher metadata.
WrapperFieldNames ==
    { "id", "filename", "originalSize", "encryptedSize", "timestamp", "metadata",
      "integrity", "version" }

MetadataFieldNames == { "salt", "iv", "tag", "algorithm", "iterations", "version" }

\* Another file of the same length: every byte changed.
OtherFile(file) == [ i \in 1..Len(file) |-> (file[i] + 1) % 256 ]

\* C25 -- No key storage.  The store holds the two blobs of each record and
\* nothing else.  A metadata blob is the JSON text of a wrapper with exactly
\* the wrapper's fields and the cipher metadata's fields, none of them a
\* password or a key: every field but the tag and the integrity digest is the
\* same whatever the password and whatever the bytes of the file (the sizes
\* follow the file's length).  An encrypted blob of a file that is not empty
\* is none of the file, its base64 text, their hex texts, the password or its
\* hex text.
NoKeyStored ==
    \A k \in DOMAIN store :
      /\ k.name \in DOMAIN client
      /\ k \in { EncryptedKey(k.name), MetadataKey(k.name) }
      /\ k.dir = "metadata/" =>
           LET w == JsonParse(store[k])
               c == client[k.name]
           IN  /\ DOMAIN w = WrapperFieldNames
               /\ DOMAIN w.metadata = MetadataFieldNames
               /\ \A password \in { p \in Passwords : ValidPassword(p) },
                     file \in { c.file, OtherFile(c.file) } :
                    LET o == createSecureFileWrapper(file, password, w.filename,
                                 w.timestamp, w.id, c.salt, c.iv).wrapper
                    IN  /\ \A f \in WrapperFieldNames \ { "metadata", "integrity" } :
                             o[f] = w[f]
                        /\ \A f \in MetadataFieldNames \ { "tag" } :
                             o.metadata[f] = w.metadata[f]
      /\ (k.dir = "encrypted/" /\ Len(client[k.name].file) > 0) =>
           LET c == client[k.name]
           IN  store[k] \notin { c.file, ToBase64(c.file), ToHex(c.file),
                                 ToHex(ToBase64(c.file)), c.password,
                                 ToHex(c.password) }

\* Both blobs of an upload of the two-byte file are in the store.
NoKeyStoredWitness ==
    \E u \in Uploaders :
      /\ Succeeded(u)
      /\ Len(client[up[u].fileId].file) = 2
      /\ EncryptedKey(up[u].fileId) \in DOMAIN store
      /\ MetadataKey(up[u].fileId) \in DOMAIN store
      /\ JsonParse(store[MetadataKey(up[u].fileId)]) = up[u].wrapper

(***************************************************************************)
(* Properties of the password generator (SpecPassword)                     *)
(***************************************************************************)

\* C26 -- Password generator.  generateSecurePassword(n) returns a string
\* of exactly n characters, each one of the 70 characters of the charset
\* (26 upper case, 26 lower case, 10 digits, 8 symbols, all different); for
\* n = 0 it returns the empty string, and the endpoint returns 32 characters.
PasswordOfCharset ==
    /\ Len(charset) = 70
    /\ Cardinality(Range(charset)) = 70
    /\ gen.pc # "idle" =>
         /\ Len(gen.password) = gen.length
         /\ \A i \in 1..Len(gen.password) : gen.password[i] \in Range(charset)
         /\ gen.length = 0 => gen.password = << >>
         /\ gen.pc = "done" => gen.status = 200 /\ gen.length = 32

\* The endpoint answered a password of 32 characters that starts 'A*'.
PasswordOfCharsetWitness ==
    /\ gen.pc = "done"
    /\ Len(gen.password) = 32
    /\ gen.password[1] = 65 /\ gen.password[2] = 42 /\ gen.password[32] = 42

(***************************************************************************)
(* Properties of the order of the two writes (SpecListing)                 *)
(***************************************************************************)

\* C27 -- Metadata last.  In every state reached by uploads alone, whichever
\* write failed and wherever an upload stopped, every metadata blob in the
\* store has the encrypted blob of its id beside it; so every id the list
\* endpoint returns has a ciphertext blob.
MetadataLast ==
    /\ \A k \in DOMAIN store :
         k.dir = "metadata/" => EncryptedKey(k.name) \in DOMAIN store
    /\ (list.pc = "done" /\ list.status = 200) =>
         /\ list.count = Len(list.files)
         /\ \A i \in 1..Len(list.files) :
              EncryptedKey(list.files[i]) \in DOMAIN store

\* The listing returned the id of a complete record while another upload had
\* written its encrypted blob and then failed to write its metadata.
MetadataLastWitness ==
    /\ list.pc = "done" /\ list.status = 200 /\ list.count = 1
    /\ \E u \in Uploaders :
         /\ up[u].pc = "done" /\ up[u].status = 500 /\ up[u].failedAt = "metadata"
         /\ EncryptedKey(up[u].fileId) \in DOMAIN store
         /\ MetadataKey(up[u].fileId) \notin DOMAIN store

(***************************************************************************)
(* Properties of the delete handler and of repeated sweeps                 *)
(***************************************************************************)

\* C28 -- Delete handler under failure.  The first step of a delete removes
\* at most the ciphertext blob of its id and the second at most the metadata
\* blob.  When deleteFile of the ciphertext raises, the handler answers 500
\* and the store, the metadata blob with it, is as it was; an absent
\* ciphertext makes it raise on the local backend and on S3 only a backend
\* error does.  When only the metadata removal raises, the handler answers
\* 500 and the ciphertext is gone.  The handler answers 200 only when both
\* calls returned, and then neither blob of the id is in the store; on the
\* local backend it then removed the metadata blob itself.
DeleteUnderFailure ==
    [][ /\ (del.pc = "idle" /\ del' # del) =>
             LET ek == EncryptedKey(del'.fileId)
             IN  /\ \A k \in DOMAIN store' : k \in DOMAIN store /\ store'[k] = store[k]
                 /\ (DOMAIN store) \ (DOMAIN store') \subseteq { ek }
                 /\ IF del'.pc = "done"
                    THEN /\ del'.status = 500
                         /\ store' = store
                         /\ storageType = "s3" => del'.ioFailure
                    ELSE /\ del'.pc = "encryptedDeleted"
                         /\ ek \notin DOMAIN store'
                         /\ storageType = "local" => ek \in DOMAIN store
        /\ (del.pc = "encryptedDeleted" /\ del' # del) =>
             LET ek == EncryptedKey(del.fileId)
                 mk == MetadataKey(del.fileId)
             IN  /\ del'.pc = "done" /\ del'.fileId = del.fileId
                 /\ \A k \in DOMAIN store' : k \in DOMAIN store /\ store'[k] = store[k]
                 /\ (DOMAIN store) \ (DOMAIN store') \subseteq { mk }
                 /\ ek \notin DOMAIN store'
                 /\ IF del'.status = 200
                    THEN /\ mk \notin DOMAIN store'
                         /\ storageType = "local" => mk \in DOMAIN store
                    ELSE /\ del'.status = 500
                         /\ store' = store
                         /\ storageType = "s3" => del'.ioFailure
      ]_vars

\* A delete answered 500 after it had removed the ciphertext: the metadata
\* blob of its id is still in the store, the ciphertext is not.
DeleteUnderFailureWitness ==
    /\ del.pc = "done" /\ del.status = 500
    /\ EncryptedKey(del.fileId) \notin DOMAIN store
    /\ MetadataKey(del.fileId) \in DOMAIN store
    /\ sweep.pc = "idle"
    /\ del.ioFailure

\* C28 as stated: a delete whose ciphertext is already absent answers with
\* an error, and a delete answers success only when it removed both blobs
\* itself.
DeleteSucceedsOnlyByRemoving ==
    [][ /\ (del.pc = "idle" /\ del' # del
              /\ EncryptedKey(del'.fileId) \notin DOMAIN store)
             => del'.pc = "done" /\ del'.status = 500
        /\ (del.pc = "encryptedDeleted" /\ del'.pc = "done" /\ del'.status = 200)
             => MetadataKey(del.fileId) \in DOMAIN store
      ]_vars

\* C29 as stated: when a sweep answers after running on a quiescent store
\* with every deletion succeeding, the sweep that follows it at once finds
\* no orphan, so it deletes nothing and leaves the store as it is.
SweepIdempotent ==
    [][ (SweepCompletes /\ ~interfered'
           /\ sweep'.cleanedFiles = sweep'.orphanedFiles)
          => SweepListed(store', storageType, FALSE) = SweepDone(<< >>, << >>, FALSE)
      ]_vars

(***************************************************************************)
(* Properties of the register handler (SpecAuth)                           *)
(***************************************************************************)

\* The register requests for a username that answered success.
Registered(registrations, username) ==
    { r \in Registrants : /\ registrations[r].pc = "done"
                          /\ registrations[r].status = 200
                          /\ registrations[r].username = username }

\* C30 as stated: in every interleaving of register requests at most one
\* registration of a username succeeds, and no step replaces the user record
\* a registration has stored.
UsernameUnique ==
    [][ /\ \A username \in DOMAIN users :
             username \in DOMAIN users' /\ users'[username] = users[username]
        /\ \A username \in Usernames :
             Cardinality(Registered(reg', username)) <= 1
      ]_vars

====
